---------------------------- MODULE Spec2Model ----------------------------
(***************************************************************************)
(* A model of transform_rentman_ical.py: the status classifier             *)
(* (status_from_component), the usage-period extractor (usage_override,    *)
(* parse_dt and the three regular expressions they use) and the pipeline   *)
(* of main (download, parse, per-event transform, routing, writing the two *)
(* output files).                                                          *)
(*                                                                         *)
(* Text is a sequence of one-character strings, so that the regular        *)
(* expressions are matched as Python's re matches them: leftmost start,    *)
(* greedy quantifiers, backtracking in priority order.  A matcher maps a   *)
(* text and a position to the SEQUENCE of positions at which it can end,   *)
(* most preferred first; concatenation of patterns is Then.                *)
(***************************************************************************)
EXTENDS Integers, Sequences, FiniteSets, TLC

(***************************************************************************)
(* Characters                                                              *)
(***************************************************************************)
\* Characters outside ASCII are written by name.
ARROW  == "<arrow>"
ENDASH == "<endash>"
AUML   == "<a-umlaut>"
AUMLUP == "<A-umlaut>"
NL     == "\n"

LowerCase == <<"a","b","c","d","e","f","g","h","i","j","k","l","m",
               "n","o","p","q","r","s","t","u","v","w","x","y","z", AUML>>
UpperCase == <<"A","B","C","D","E","F","G","H","I","J","K","L","M",
               "N","O","P","Q","R","S","T","U","V","W","X","Y","Z", AUMLUP>>
DigitChars == <<"0","1","2","3","4","5","6","7","8","9">>

Range(f) == {f[i] : i \in DOMAIN f}

IndexOf(seq, c) == CHOOSE i \in DOMAIN seq : seq[i] = c

\* str.lower() / str.upper() and the folding of re.I, one character at a time.
Lower(c) == IF c \in Range(UpperCase) THEN LowerCase[IndexOf(UpperCase, c)] ELSE c
Upper(c) == IF c \in Range(LowerCase) THEN UpperCase[IndexOf(LowerCase, c)] ELSE c
LowerStr(s) == [i \in DOMAIN s |-> Lower(s[i])]
UpperStr(s) == [i \in DOMAIN s |-> Upper(s[i])]

IsDigit(c) == c \in Range(DigitChars)
DigitVal(c) == IndexOf(DigitChars, c) - 1
\* \s and \w of a str pattern.
IsSpace(c) == c \in {" ", "\t", NL}
IsWord(c) == c \in Range(LowerCase) \cup Range(UpperCase) \cup Range(DigitChars) \cup {"_"}

\* The least element of a nonempty set of numbers.
Min(S) == CHOOSE i \in S : \A j \in S : i <= j

\* s[a..b-1]
Slice(s, a, b) == SubSeq(s, a, b - 1)

\* int() of the digits s[a..b-1]
Num(s, a, b) ==
  LET F[i \in a-1 .. b-1] == IF i = a - 1 THEN 0 ELSE 10 * F[i-1] + DigitVal(s[i])
  IN F[b-1]

\* needle in hay
Contains(hay, needle) ==
  \E i \in 1 .. Len(hay) - Len(needle) + 1 :
     \A k \in 1 .. Len(needle) : hay[i + k - 1] = needle[k]

\* "sep".join(parts)
Join(parts, sep) ==
  LET F[i \in 0 .. Len(parts)] ==
        IF i = 0 THEN <<>>
        ELSE IF i = 1 THEN parts[1] ELSE F[i-1] \o sep \o parts[i]
  IN F[Len(parts)]

\* str.strip()
Strip(s) ==
  LET keep == {i \in DOMAIN s : ~IsSpace(s[i])}
  IN IF keep = {} THEN <<>>
     ELSE LET lo == CHOOSE i \in keep : \A j \in keep : i <= j
              hi == CHOOSE i \in keep : \A j \in keep : i >= j
          IN SubSeq(s, lo, hi)

\* str.splitlines(), for the line break "\n"
splitlines(s) ==
  LET nls == {i \in DOMAIN s : s[i] = NL}
      starts == ({1} \cup {i + 1 : i \in nls}) \cap DOMAIN s
      start(k) == CHOOSE b \in starts : Cardinality({c \in starts : c < b}) = k - 1
      stop(b) == IF \E i \in nls : i >= b
                 THEN CHOOSE i \in nls : i >= b /\ \A j \in nls : j >= b => i <= j
                 ELSE Len(s) + 1
  IN [k \in 1 .. Cardinality(starts) |-> Slice(s, start(k), stop(start(k)))]

(***************************************************************************)
(* Regular-expression matching                                             *)
(***************************************************************************)
\* The alternatives alts (most preferred first), each continued by the matcher
\* k, a function from a position to the sequence of positions it can reach.
Flat(alts, k) ==
  LET F[i \in 0 .. Len(alts)] == IF i = 0 THEN <<>> ELSE F[i-1] \o k[alts[i]]
  IN F[Len(alts)]
\* (ps is evaluated once, by binding it.)
Then(ps, k) == CHOOSE r \in {Flat(alts, k) : alts \in {ps}} : TRUE

\* The positions of a text: before each character and after the last.
Pos(s) == 1 .. Len(s) + 1

\* One character of the class C.
Lit(s, p, C) == IF p <= Len(s) /\ s[p] \in C THEN <<p + 1>> ELSE <<>>

\* A literal word under re.I.
Word(s, p, w) ==
  IF p + Len(w) - 1 <= Len(s) /\ \A k \in 1 .. Len(w) : Lower(s[p + k - 1]) = w[k]
  THEN <<p + Len(w)>> ELSE <<>>

\* The length of the longest run, from p, of characters in C (neg = FALSE)
\* or not in C (neg = TRUE).
RunLen(s, p, C, neg) ==
  LET stops == {q \in p .. Len(s) : (s[q] \in C) = neg}
  IN IF stops = {} THEN Len(s) + 1 - p
     ELSE (CHOOSE q \in stops : \A r \in stops : q <= r) - p

\* A greedy star: the longest run first, then each shorter one.
Star(s, p, C, neg) ==
  LET n == RunLen(s, p, C, neg) IN [i \in 1 .. n + 1 |-> p + n + 1 - i]

\* \s*
Ws(s, p) == Star(s, p, {" ", "\t", NL}, FALSE)

\* \d{k}
DigitsN(s, p, k) ==
  IF p + k - 1 <= Len(s) /\ \A i \in p .. p + k - 1 : IsDigit(s[i])
  THEN <<p + k>> ELSE <<>>

\* \d{1,2}
D12(s, p) == DigitsN(s, p, 2) \o DigitsN(s, p, 1)

\* [x]? , greedy
Opt(s, p, C) == Lit(s, p, C) \o <<p>>

\* Python's None.
None == [kind |-> "none"]

\* pattern.search(s): the match at the leftmost position that has one.
\* at is a function from a start position to the alternatives there.
Search(s, at) ==
  LET found == [p \in Pos(s) |-> at[p]]
      hits == {p \in Pos(s) : found[p] # <<>>}
  IN CHOOSE r \in {IF hits = {} THEN None
                   ELSE f[CHOOSE p \in hits : \A q \in hits : p <= q][1] :
                   f \in {found}} : TRUE

(***************************************************************************)
(* USAGE_LINE, DT_PAIR, TIME_PAIR                                          *)
(***************************************************************************)
\* usage[^:\n]*[:\-]?\s*  -- the prefix USAGE_LINE and TIME_PAIR share: the
\* positions where the captured text may start, after "usage" at p.
UsagePrefix(s, p) ==
  Then(Then(Then(Word(s, p, <<"u","s","a","g","e">>),
                 [q \in Pos(s) |-> Star(s, q, {":", NL}, TRUE)]),
            [q \in Pos(s) |-> Opt(s, q, {":", "-"})]),
       [q \in Pos(s) |-> Ws(s, q)])

\* USAGE_LINE = usage[^:\n]*[:\-]?\s*(.+) : group 1, or None.
USAGE_LINE(s) ==
  Search(s, [p \in Pos(s) |->
     Then(UsagePrefix(s, p),
          [q \in Pos(s) |->
             LET n == RunLen(s, q, {NL}, TRUE)
             IN IF n >= 1 THEN << [kind |-> "match", g1 |-> Slice(s, q, q + n)] >>
                ELSE <<>>])])

\* (?:->|to|-|--) between optional white space
RangeSep(s, p) ==
  Then(Then(Ws(s, p),
            [q \in Pos(s) |-> Lit(s, q, {ARROW}) \o Word(s, q, <<"t","o">>)
                              \o Lit(s, q, {"-"}) \o Lit(s, q, {ENDASH})]),
       [q \in Pos(s) |-> Ws(s, q)])

\* \d{4}[-/]\d{1,2}[-/]\d{1,2}[ T]\d{1,2}:\d{2}(?::\d{2})?
DtText(s, p) ==
  Then(Then(Then(Then(Then(Then(Then(Then(Then(
    DigitsN(s, p, 4),
    [q \in Pos(s) |-> Lit(s, q, {"-", "/"})]),
    [q \in Pos(s) |-> D12(s, q)]),
    [q \in Pos(s) |-> Lit(s, q, {"-", "/"})]),
    [q \in Pos(s) |-> D12(s, q)]),
    [q \in Pos(s) |-> Lit(s, q, {" ", "T", "t"})]),
    [q \in Pos(s) |-> D12(s, q)]),
    [q \in Pos(s) |-> Lit(s, q, {":"})]),
    [q \in Pos(s) |-> DigitsN(s, q, 2)]),
    [q \in Pos(s) |-> Then(Lit(s, q, {":"}), [r \in Pos(s) |-> DigitsN(s, r, 2)])
                      \o <<q>>])

\* \d{1,2}:\d{2}
ClockText(s, p) ==
  Then(Then(D12(s, p), [q \in Pos(s) |-> Lit(s, q, {":"})]),
       [q \in Pos(s) |-> DigitsN(s, q, 2)])

\* DT_PAIR.search(s): groups 1 and 2, or None.
DT_PAIR(s) ==
  Search(s, [p \in Pos(s) |->
     Then(DtText(s, p), [e1 \in Pos(s) |->
       Then(RangeSep(s, e1), [b2 \in Pos(s) |->
         Then(DtText(s, b2), [e2 \in Pos(s) |->
           << [kind |-> "match", g1 |-> Slice(s, p, e1), g2 |-> Slice(s, b2, e2)] >>])])])])

\* TIME_PAIR.search(s): groups 1 and 2, or None.
TIME_PAIR(s) ==
  Search(s, [p \in Pos(s) |->
     Then(UsagePrefix(s, p), [b1 \in Pos(s) |->
       Then(ClockText(s, b1), [e1 \in Pos(s) |->
         Then(RangeSep(s, e1), [b2 \in Pos(s) |->
           Then(ClockText(s, b2), [e2 \in Pos(s) |->
             << [kind |-> "match", g1 |-> Slice(s, b1, e1), g2 |-> Slice(s, b2, e2)] >>])])])])])

(***************************************************************************)
(* Dates and times                                                         *)
(***************************************************************************)
TZID == "America/Vancouver"

IsLeap(y) == (y % 4 = 0 /\ y % 100 # 0) \/ y % 400 = 0
DaysIn(y, m) ==
  IF m = 2 THEN (IF IsLeap(y) THEN 29 ELSE 28)
  ELSE IF m \in {4, 6, 9, 11} THEN 30 ELSE 31

\* datetime.date(y, mo, d)
Date(y, mo, d) == [kind |-> "date", y |-> y, mo |-> mo, d |-> d]
\* datetime.datetime(y, mo, d, h, mi, s, tzinfo = tz); tz = "naive" for none
DateTime(y, mo, d, h, mi, s, tz) ==
  [kind |-> "datetime", y |-> y, mo |-> mo, d |-> d, h |-> h, mi |-> mi, s |-> s, tz |-> tz]
\* datetime.time(h, mi)
Time(h, mi) == [kind |-> "time", h |-> h, mi |-> mi]

\* isinstance(v, datetime)
IsDateTime(v) == v.kind = "datetime"
\* datetime.date() of a datetime
DateOf(v) == Date(v.y, v.mo, v.d)
\* datetime.combine(date, time): naive
Combine(dv, tv) == DateTime(dv.y, dv.mo, dv.d, tv.h, tv.mi, 0, "naive")
\* TZ.localize(naive datetime)
Localize(dtv) == [dtv EXCEPT !.tz = TZID]

\* A numeric directive of strptime, as its regular expression has it: two
\* digits whose value is in lo2..hi2, else one digit that is at least lo1.
\* The alternatives are <<end position, value>>.
Field(s, p, lo2, hi2, lo1) ==
  (IF DigitsN(s, p, 2) # <<>> /\ Num(s, p, p + 2) \in lo2 .. hi2
   THEN << <<p + 2, Num(s, p, p + 2)>> >> ELSE <<>>)
  \o
  (IF DigitsN(s, p, 1) # <<>> /\ DigitVal(s[p]) >= lo1
   THEN << <<p + 1, DigitVal(s[p])>> >> ELSE <<>>)

\* After a field: the continuation k applied at the field's end, given its value.
ThenField(fs, k) == Then(fs, k)

\* All <<position, value>> pairs a field of text s can give.
FieldAlts(s) == Pos(s) \X (0 .. 99)

\* datetime.strptime(s, "%H:%M").time(), or the value [kind |-> "ValueError"].
\* _strptime matches the format's pattern at the start of s and rejects a
\* match that does not end where s ends.
ValueError == [kind |-> "ValueError"]
StrptimeHM(s) ==
  CHOOSE r \in
    { IF alts # <<>> /\ alts[1][1] = Len(s) + 1 THEN alts[1][2] ELSE ValueError :
      alts \in
        { ThenField(Field(s, 1, 0, 23, 0), [H \in FieldAlts(s) |->
            Then(Lit(s, H[1], {":"}), [q \in Pos(s) |->
              ThenField(Field(s, q, 0, 59, 0), [M \in FieldAlts(s) |->
                << <<M[1], Time(H[2], M[2])>> >>])])]) } } : TRUE

\* The date-time formats of DT_FORMATS, in order: the date separator, the
\* separator of date and time, and whether seconds are read.
DT_FORMATS ==
  << [dsep |-> "-", tsep |-> " ", secs |-> TRUE],  [dsep |-> "-", tsep |-> " ", secs |-> FALSE],
     [dsep |-> "/", tsep |-> " ", secs |-> TRUE],  [dsep |-> "/", tsep |-> " ", secs |-> FALSE],
     [dsep |-> "-", tsep |-> "T", secs |-> TRUE],  [dsep |-> "-", tsep |-> "T", secs |-> FALSE] >>

\* A blank of a format is \s+ ; a letter is itself in either case.
FormatSep(s, p, c) ==
  IF c = " "
  THEN LET n == RunLen(s, p, {" ", "\t", NL}, FALSE)
       IN [i \in 1 .. n |-> p + n + 1 - i]
  ELSE Lit(s, p, {c, Lower(c)})

\* %d also reads a blank and one digit.
DayField(s, p) ==
  Field(s, p, 1, 31, 1)
  \o (IF p + 1 <= Len(s) /\ s[p] = " " /\ IsDigit(s[p + 1]) /\ DigitVal(s[p + 1]) >= 1
      THEN << <<p + 2, DigitVal(s[p + 1])>> >> ELSE <<>>)

\* [:%S] of a format, or nothing.
Seconds(s, q, fmt) ==
  IF fmt.secs
  THEN Then(Lit(s, q, {":"}), [r \in Pos(s) |-> Field(s, r, 0, 61, 0)])
  ELSE << <<q, 0>> >>

\* The fields of s as the pattern of fmt reads them, and where it ends.
StrptimeMatch(s, fmt) ==
  Then(DigitsN(s, 1, 4), [a \in Pos(s) |->
    Then(Lit(s, a, {fmt.dsep}), [b \in Pos(s) |->
      ThenField(Field(s, b, 1, 12, 1), [mo \in FieldAlts(s) |->
        Then(Lit(s, mo[1], {fmt.dsep}), [c \in Pos(s) |->
          ThenField(DayField(s, c), [d \in FieldAlts(s) |->
            Then(FormatSep(s, d[1], fmt.tsep), [e \in Pos(s) |->
              ThenField(Field(s, e, 0, 23, 0), [H \in FieldAlts(s) |->
                Then(Lit(s, H[1], {":"}), [f \in Pos(s) |->
                  ThenField(Field(s, f, 0, 59, 0), [M \in FieldAlts(s) |->
                    ThenField(Seconds(s, M[1], fmt), [S \in FieldAlts(s) |->
                      << [end |-> S[1], y |-> Num(s, 1, 5), mo |-> mo[2], d |-> d[2],
                          h |-> H[2], mi |-> M[2], s |-> S[2]] >>])])])])])])])])])])

\* datetime.strptime(s, fmt): a naive datetime, or ValueError.  The match
\* must end where s ends, and the constructor of datetime checks the ranges.
Strptime(s, fmt) ==
  CHOOSE r \in
    { IF alts = <<>> THEN ValueError
      ELSE IF /\ alts[1].end = Len(s) + 1
              /\ alts[1].y >= 1 /\ alts[1].d <= DaysIn(alts[1].y, alts[1].mo) /\ alts[1].s <= 59
           THEN DateTime(alts[1].y, alts[1].mo, alts[1].d, alts[1].h, alts[1].mi, alts[1].s, "naive")
           ELSE ValueError :
      alts \in {StrptimeMatch(s, fmt)} } : TRUE

\* s.replace("Z", "+00:00")
ReplaceZ(s) ==
  LET F[i \in 0 .. Len(s)] ==
        IF i = 0 THEN <<>>
        ELSE F[i-1] \o (IF s[i] = "Z" THEN <<"+","0","0",":","0","0">> ELSE <<s[i]>>)
  IN F[Len(s)]

\* datetime.fromisoformat(s) for the texts YYYY-MM-DD?HH:MM[:SS]+HH:MM (? any
\* one character), the texts with an offset that every Python 3 version of it
\* reads; on any other text it raises.
TwoDigits(s, p) == IF DigitsN(s, p, 2) # <<>> THEN Num(s, p, p + 2) ELSE -1
IsoShape(s, o) ==
  /\ Len(s) = o + 5
  /\ DigitsN(s, 1, 4) # <<>>
  /\ s[5] = "-" /\ s[8] = "-" /\ s[14] = ":" /\ s[o] = "+" /\ s[o + 3] = ":"
  /\ o = 20 => s[17] = ":"
FromIsoFormat(s) ==
  CHOOSE r \in
    { IF /\ IsoShape(s, f.o)
         /\ f.y >= 1 /\ f.mo \in 1 .. 12 /\ f.d \in 1 .. DaysIn(f.y, f.mo)
         /\ f.h \in 0 .. 23 /\ f.mi \in 0 .. 59 /\ f.s \in 0 .. 59
         /\ f.oh \in 0 .. 23 /\ f.om \in 0 .. 59
      THEN DateTime(f.y, f.mo, f.d, f.h, f.mi, f.s, <<"UTC+", f.oh, f.om>>)
      ELSE ValueError :
      f \in { [o |-> o, y |-> IF DigitsN(s, 1, 4) # <<>> THEN Num(s, 1, 5) ELSE 0,
               mo |-> TwoDigits(s, 6), d |-> TwoDigits(s, 9), h |-> TwoDigits(s, 12),
               mi |-> TwoDigits(s, 15), s |-> IF o = 20 THEN TwoDigits(s, 18) ELSE 0,
               oh |-> TwoDigits(s, o + 1), om |-> TwoDigits(s, o + 4)] :
              o \in {IF Len(s) = 25 THEN 20 ELSE 17} } } : TRUE

\* parse_dt(s): an aware datetime, or None.
\* Lines 78-83: the text with a "T" and a "+", read by fromisoformat.
ParseIso(s) ==
  IF "T" \in Range(s) /\ ("+" \in Range(s) \/ (s # <<>> /\ s[Len(s)] = "Z"))
  THEN FromIsoFormat(ReplaceZ(s)) ELSE ValueError

\* Lines 84-90: the first format of DT_FORMATS that reads s.
ParseFormats(s) ==
  CHOOSE r \in
    { IF \A i \in DOMAIN DT_FORMATS : tries[i] = ValueError THEN None
      ELSE Localize(tries[Min({i \in DOMAIN DT_FORMATS : tries[i] # ValueError})]) :
      tries \in {[i \in DOMAIN DT_FORMATS |-> Strptime(s, DT_FORMATS[i])]} } : TRUE

parse_dt(s0) ==
  CHOOSE r \in
    { IF iso # ValueError THEN (IF iso.tz # "naive" THEN iso ELSE Localize(iso))
      ELSE ParseFormats(ReplaceZ(Strip(s0))) :
      iso \in {ParseIso(ReplaceZ(Strip(s0)))} } : TRUE

(***************************************************************************)
(* usage_override                                                          *)
(***************************************************************************)
\* What a call gives: a value, or an exception that leaves the caller.
Raise(exc) == [kind |-> "raise", exc |-> exc]
Pair(s, e) == [kind |-> "pair", s |-> s, e |-> e]

\* if s_dt and e_dt: return s_dt, e_dt
ParsedPair(s_dt, e_dt) == IF s_dt # None /\ e_dt # None THEN Pair(s_dt, e_dt) ELSE None

\* p = DT_PAIR.search(tail) and what the first loop does with it.
FullPairIn(tail) ==
  CHOOSE r \in { IF p = None THEN None ELSE ParsedPair(parse_dt(p.g1), parse_dt(p.g2)) :
                 p \in {DT_PAIR(tail)} } : TRUE

\* The body of the first loop for one line: the pair of a line that has the
\* word usage, a date-time pair in what follows, and both sides parsed.
FullPairOf(line) ==
  CHOOSE r \in { IF m = None THEN None ELSE FullPairIn(m.g1) :
                 m \in {USAGE_LINE(line)} } : TRUE

\* The body of the second loop for one line that TIME_PAIR matches.
BarePair(s_t, e_t, original_start, original_end) ==
  IF s_t = ValueError \/ e_t = ValueError THEN Raise("ValueError")
  ELSE Pair(Localize(Combine(IF IsDateTime(original_start) THEN DateOf(original_start)
                             ELSE original_start, s_t)),
            Localize(Combine(IF IsDateTime(original_end) THEN DateOf(original_end)
                             ELSE original_end, e_t)))
BarePairOf(p, original_start, original_end) ==
  CHOOSE r \in { BarePair(t[1], t[2], original_start, original_end) :
                 t \in {<<StrptimeHM(p.g1), StrptimeHM(p.g2)>>} } : TRUE

\* ScanLoops with the loops in the other order: a bare pair wins over a
\* date-time pair.
ScanLoopsBareFirst(lines, fulls, bares, original_start, original_end) ==
  IF \E i \in DOMAIN lines : bares[i] # None
  THEN BarePairOf(bares[Min({i \in DOMAIN lines : bares[i] # None})],
                  original_start, original_end)
  ELSE IF \E i \in DOMAIN lines : fulls[i] # None
       THEN fulls[Min({i \in DOMAIN lines : fulls[i] # None})]
       ELSE None

\* The two loops over the lines: the first line with a parsed date-time
\* pair returns it; else the first line TIME_PAIR matches decides.
ScanLoops(lines, fulls, bares, original_start, original_end) ==
  IF \E i \in DOMAIN lines : fulls[i] # None
  THEN fulls[Min({i \in DOMAIN lines : fulls[i] # None})]
  ELSE IF \E i \in DOMAIN lines : bares[i] # None
       THEN BarePairOf(bares[Min({i \in DOMAIN lines : bares[i] # None})],
                       original_start, original_end)
       ELSE None

\* usage_override(summary, desc, original_start, original_end):
\* Pair(start, end), None, or Raise.
usage_override(summary, desc, original_start, original_end) ==
  CHOOSE r \in
    { ScanLoops(lines, [i \in DOMAIN lines |-> FullPairOf(lines[i])],
                [i \in DOMAIN lines |-> TIME_PAIR(lines[i])],
                original_start, original_end) :
      lines \in {splitlines(summary \o <<NL>> \o desc)} } : TRUE

(***************************************************************************)
(* status_from_component                                                   *)
(***************************************************************************)
\* A property of a component: absent (get gives None), or its text.
Absent == [present |-> FALSE, v |-> <<>>]
Some(v) == [present |-> TRUE, v |-> v]
\* comp.get(name, default)
Get(prop, default) == IF prop.present THEN prop.v ELSE default

\* \b at position p
Boundary(s, p) ==
  (p > 1 /\ IsWord(s[p - 1])) # (p <= Len(s) /\ IsWord(s[p]))

\* re.compile(r"\b(w1|w2|...)\b", re.I).search(s) finds something
PatSearch(s, words) ==
  \E p \in Pos(s) : \E w \in words :
     /\ Word(s, p, w) # <<>>
     /\ Boundary(s, p)
     /\ Boundary(s, p + Len(w))

\* confirm(ed)?|best(ae|a-umlaut)tigt
CONFIRM_PAT ==
  { <<"c","o","n","f","i","r","m">>, <<"c","o","n","f","i","r","m","e","d">>,
    <<"b","e","s","t","a","e","t","i","g","t">>, <<"b","e","s","t",AUML,"t","i","g","t">> }
\* option|concept|konzept|tentative|pending
OPTION_PAT ==
  { <<"o","p","t","i","o","n">>, <<"c","o","n","c","e","p","t">>, <<"k","o","n","z","e","p","t">>,
    <<"t","e","n","t","a","t","i","v","e">>, <<"p","e","n","d","i","n","g">> }
\* cancel(l)?(ed)?|storniert|abgesagt
CANCEL_PAT ==
  { <<"c","a","n","c","e","l">>, <<"c","a","n","c","e","l","l">>,
    <<"c","a","n","c","e","l","e","d">>, <<"c","a","n","c","e","l","l","e","d">>,
    <<"s","t","o","r","n","i","e","r","t">>, <<"a","b","g","e","s","a","g","t">> }

CANCELLED == [ical |-> "CANCELLED", label |-> <<"C","a","n","c","e","l","l","e","d">>]
CONFIRMED == [ical |-> "CONFIRMED", label |-> <<"C","o","n","f","i","r","m","e","d">>]
TENTATIVE == [ical |-> "TENTATIVE", label |-> <<"P","e","n","d","i","n","g">>]
\* A layer that returns nothing: the function goes on to the next one.
NoReturn == [ical |-> "", label |-> <<>>]

\* Lines 35-40: the STATUS property.
StatusLayer(comp) ==
  IF comp.status.present /\ comp.status.v # <<>>
  THEN LET sval == UpperStr(Strip(comp.status.v)) IN
       IF Contains(sval, <<"C","A","N","C","E","L">>) THEN CANCELLED
       ELSE IF Contains(sval, <<"C","O","N","F","I","R","M">>) THEN CONFIRMED
       ELSE IF Contains(sval, <<"T","E","N","T","A","T","I","V","E">>) THEN TENTATIVE
       ELSE NoReturn
  ELSE NoReturn

\* Lines 42-51: the CATEGORIES property, a list of texts.
CategoryLayer(comp) ==
  IF comp.categories.present
  THEN LET joined == Join(comp.categories.v, <<" ">>) IN
       IF PatSearch(joined, CANCEL_PAT) THEN CANCELLED
       ELSE IF PatSearch(joined, CONFIRM_PAT) THEN CONFIRMED
       ELSE IF PatSearch(joined, OPTION_PAT) THEN TENTATIVE
       ELSE NoReturn
  ELSE NoReturn

\* TextLayer with confirmation tested before cancellation.
TextLayerConfirmFirst(comp) ==
  IF PatSearch(LowerStr(Get(comp.summary, <<>>) \o <<NL>> \o Get(comp.description, <<>>)),
               CONFIRM_PAT) THEN CONFIRMED
  ELSE IF PatSearch(LowerStr(Get(comp.summary, <<>>) \o <<NL>> \o Get(comp.description, <<>>)),
                    CANCEL_PAT) THEN CANCELLED
  ELSE IF PatSearch(LowerStr(Get(comp.summary, <<>>) \o <<NL>> \o Get(comp.description, <<>>)),
                    OPTION_PAT) THEN TENTATIVE
  ELSE NoReturn

\* Lines 53-56: summary and description.
TextLayer(comp) ==
  LET text == LowerStr(Get(comp.summary, <<>>) \o <<NL>> \o Get(comp.description, <<>>)) IN
  IF PatSearch(text, CANCEL_PAT) THEN CANCELLED
  ELSE IF PatSearch(text, CONFIRM_PAT) THEN CONFIRMED
  ELSE IF PatSearch(text, OPTION_PAT) THEN TENTATIVE
  ELSE NoReturn

\* FirstReturn without the final return: the function falls off its end.
FirstReturnNoDefault(layers) ==
  IF \E i \in DOMAIN layers : layers[i] # NoReturn
  THEN layers[Min({i \in DOMAIN layers : layers[i] # NoReturn})]
  ELSE NoReturn

\* The first layer that returns, else the default.
FirstReturn(layers) ==
  IF \E i \in DOMAIN layers : layers[i] # NoReturn
  THEN layers[Min({i \in DOMAIN layers : layers[i] # NoReturn})]
  ELSE TENTATIVE

\* status_from_component with the categories read before the STATUS property.
status_from_component_categories_first(comp) ==
  FirstReturn(<<CategoryLayer(comp), StatusLayer(comp), TextLayer(comp)>>)

\* status_from_component(comp)
status_from_component(comp) ==
  FirstReturn(<<StatusLayer(comp), CategoryLayer(comp), TextLayer(comp)>>)

(***************************************************************************)
(* State                                                                   *)
(***************************************************************************)
VARIABLES
  pc,             \* where main (or the function under study) stands
  resp,           \* the response of requests.get
  src,            \* the components src.walk() gives, in order
  pos,            \* how many of them the loop has taken
  cal_confirmed,  \* the events of the confirmed calendar, in order
  cal_pending,    \* the events of the pending calendar, in order
  changed_usage,  \* the counter of usage overrides
  exc,            \* the exception that ended the run, if one did
  files,          \* the two output files
  call,           \* the arguments of the function under study
  ret             \* what it returned

vars == <<pc, resp, src, pos, cal_confirmed, cal_pending, changed_usage, exc, files, call, ret>>

NoExc == [type |-> "", stage |-> ""]
NoFile == [written |-> FALSE, events |-> <<>>]
NoFiles == [confirmed |-> NoFile, pending |-> NoFile]
NoResp == [status_code |-> 0, content |-> <<>>]
NoCall == [fn |-> ""]

(***************************************************************************)
(* Texts of the inputs                                                     *)
(***************************************************************************)
\* Two decimal digits of n, and four.
Digits2(n) == <<DigitChars[((n \div 10) % 10) + 1], DigitChars[(n % 10) + 1]>>
Digits4(n) == Digits2(n \div 100) \o Digits2(n % 100)

\* A clock time and a date-time as an event's text writes them.
ClockStr(c) == Digits2(c.h) \o <<":">> \o Digits2(c.mi)
DateTimeStr(v) ==
  Digits4(v.y) \o <<"-">> \o Digits2(v.mo) \o <<"-">> \o Digits2(v.d) \o <<" ">> \o ClockStr(v)

\* A line of text: the word usage, what follows it up to the range (lead),
\* the two sides of the range and what separates them; or any other text.
BareLine(lead, a, rsep, b) == [form |-> "bare", lead |-> lead, a |-> a, rsep |-> rsep, b |-> b]
FullLine(lead, a, rsep, b) == [form |-> "full", lead |-> lead, a |-> a, rsep |-> rsep, b |-> b]
TextLine(text) == [form |-> "text", lead |-> text, a |-> None, rsep |-> <<>>, b |-> None]

LineStr(l) ==
  IF l.form = "text" THEN l.lead
  ELSE <<"U","s","a","g","e">> \o l.lead
       \o (IF l.form = "bare" THEN ClockStr(l.a) ELSE DateTimeStr(l.a))
       \o l.rsep
       \o (IF l.form = "bare" THEN ClockStr(l.b) ELSE DateTimeStr(l.b))

\* The description made of the lines ls.
DescStr(ls) == Join([i \in DOMAIN ls |-> LineStr(ls[i])], <<NL>>)

Clock(h, mi) == [h |-> h, mi |-> mi]
ValidClock(c) == c.h \in 0 .. 23 /\ c.mi \in 0 .. 59
Stamp(y, mo, d, h, mi) == [y |-> y, mo |-> mo, d |-> d, h |-> h, mi |-> mi]
ValidStamp(v) == v.y >= 1 /\ v.mo \in 1 .. 12 /\ v.d \in 1 .. DaysIn(v.y, v.mo) /\ ValidClock(v)

\* What may stand between the word usage and the range: a separator or none.
Leads == { <<":"," ">>, <<" ">>, <<" ","-"," ">>, <<":">> }
\* The separators of a range.
RangeSeps == { <<" ",ARROW," ">>, <<"-">>, <<ENDASH>>, <<" ","t","o"," ">> }

\* The sequences over S of length at most n.
SeqsUpTo(S, n) == UNION {[1 .. k -> S] : k \in 0 .. n}

(***************************************************************************)
(* usage_override on its own                                               *)
(***************************************************************************)
\* The longest description, in lines, of the descriptions of several lines.
MaxLines == 2

Clocks == {Clock(9, 0), Clock(10, 30), Clock(23, 59), Clock(25, 0), Clock(12, 75)}
Stamps == {Stamp(2024, 6, 1, 14, 0), Stamp(2024, 6, 1, 22, 0), Stamp(2024, 13, 1, 10, 0)}

\* Descriptions of one line: every lead, separator and pair of sides.
OneLiners ==
  {BareLine(l, a, r, b) : l \in Leads, a \in Clocks, r \in RangeSeps, b \in Clocks}
  \cup {FullLine(l, v[1], r, v[2]) : l \in Leads, v \in Stamps \X Stamps, r \in RangeSeps}
  \cup {TextLine(<<"L","o","a","d"," ","i","n"," ","0","8",":","0","0"," ","-"," ","0","9",":","0","0">>), TextLine(<<"u","s","a","g","e"," ","t","b","d">>)}

\* The lines of the descriptions of several lines.
ScanLines ==
  { TextLine(<<"L","o","a","d"," ","i","n">>),
    BareLine(<<":"," ">>, Clock(9, 0), <<"-">>, Clock(23, 59)),
    BareLine(<<":"," ">>, Clock(10, 30), <<" ","t","o"," ">>, Clock(9, 0)),
    BareLine(<<":"," ">>, Clock(25, 0), <<"-">>, Clock(9, 0)),
    FullLine(<<":"," ">>, Stamp(2024, 6, 1, 14, 0), <<" ",ARROW," ">>, Stamp(2024, 6, 1, 22, 0)),
    FullLine(<<":"," ">>, Stamp(2024, 6, 1, 22, 0), <<"-">>, Stamp(2024, 6, 1, 14, 0)),
    FullLine(<<":"," ">>, Stamp(2024, 13, 1, 10, 0), <<" ",ARROW," ">>, Stamp(2024, 6, 1, 22, 0)) }

\* Titles: one without the word usage, one with a bare pair after it.
PlainTitle == TextLine(<<"G","a","l","a">>)
UsageTitle == BareLine(<<":"," ">>, Clock(7, 15), <<"-">>, Clock(8, 45))

\* Nominal windows: whole days, and instants.
Nominals ==
  { <<Date(2024, 7, 10), Date(2024, 7, 11)>>,
    <<DateTime(2024, 7, 10, 8, 0, 0, TZID), DateTime(2024, 7, 11, 20, 0, 0, TZID)>> }

UsageCalls ==
  { [fn |-> "usage_override", summary |-> s, lines |-> ls, original_start |-> n[1],
     original_end |-> n[2]] :
      s \in {PlainTitle, UsageTitle},
      ls \in {<<l>> : l \in OneLiners} \cup SeqsUpTo(ScanLines, MaxLines),
      n \in Nominals }

InitUsage ==
  /\ pc = "call"
  /\ call \in UsageCalls
  /\ ret = None
  /\ resp = NoResp /\ src = <<>> /\ pos = 0
  /\ cal_confirmed = <<>> /\ cal_pending = <<>> /\ changed_usage = 0
  /\ exc = NoExc /\ files = NoFiles

\* u = usage_override(summary, desc, dtstart, dtend)
CallUsageOverride ==
  /\ pc = "call"
  /\ call.fn = "usage_override"
  /\ ret' = usage_override(LineStr(call.summary), DescStr(call.lines),
                           call.original_start, call.original_end)
  /\ pc' = "returned"
  /\ UNCHANGED <<resp, src, pos, cal_confirmed, cal_pending, changed_usage, exc, files, call>>

NextUsage == CallUsageOverride

SpecUsage == InitUsage /\ [][NextUsage]_vars

(***************************************************************************)
(* status_from_component on its own                                        *)
(***************************************************************************)
\* A text given to the classifier, with the pattern sets the rules of its
\* layer find in it (sig): by substring for STATUS, by whole word elsewhere.
Text(v, sig) == [prop |-> Some(v), sig |-> sig]
NoText == [prop |-> Absent, sig |-> {}]

StatusTexts ==
  { NoText,
    Text(<<>>, {}),
    Text(<<"T","E","N","T","A","T","I","V","E">>, {"option"}),
    Text(<<"C","o","n","f","i","r","m","e","d">>, {"confirm"}),
    Text(<<" ","c","a","n","c","e","l","l","e","d"," ">>, {"cancel"}),
    Text(<<"N","E","E","D","S","-","A","C","T","I","O","N">>, {}),
    Text(<<"o","p","t","i","o","n">>, {}),
    Text(<<"U","n","c","o","n","f","i","r","m","e","d",","," ","c","a","n","c","e","l","l","a","t","i","o","n"," ","p","e","n","d","i","n","g">>, {"confirm", "cancel"}),
    Text(<<"t","e","n","t","a","t","i","v","e"," ","c","o","n","f","i","r","m","a","t","i","o","n">>, {"option", "confirm"}) }

\* CATEGORIES: a list of texts.
CategoryTexts ==
  { NoText,
    Text(<<<<"R","e","n","t","a","l">>>>, {}),
    Text(<<<<"C","o","n","f","i","r","m","e","d">>>>, {"confirm"}),
    Text(<<<<"O","p","t","i","o","n">>, <<"S","t","o","r","n","i","e","r","t">>>>, {"option", "cancel"}),
    Text(<<<<"p","e","n","d","i","n","g">>, <<"B","E","S","T",AUMLUP,"T","I","G","T">>>>, {"option", "confirm"}),
    Text(<<<<"p","r","e","c","o","n","f","i","r","m","e","d">>, <<"c","a","n","c","e","l","l","e","d","_","2","0","2","4">>, <<"c","o","n">>, <<"f","i","r","m">>>>, {}),
    Text(<<<<"K","o","n","z","e","p","t">>>>, {"option"}) }

SummaryTexts ==
  { NoText,
    Text(<<"G","a","l","a">>, {}),
    Text(<<"G","a","l","a"," ","(","b","e","s","t","a","e","t","i","g","t",")">>, {"confirm"}),
    Text(<<"O","p","t","i","o","n",":"," ","G","a","l","a"," ","c","a","n","c","e","l","e","d">>, {"option", "cancel"}) }

DescriptionTexts ==
  { NoText,
    Text(<<"B","o","o","k","i","n","g"," ","C","O","N","F","I","R","M","E","D"," ","f","o","r"," ","s","t","a","g","e">>, {"confirm"}),
    Text(<<"L","o","a","d"," ","i","n",NL,"a","b","g","e","s","a","g","t">>, {"cancel"}),
    Text(<<"r","e","c","o","n","f","i","r","m","a","t","i","o","n"," ","o","p","t","i","o","n","a","l">>, {}),
    Text(<<"S","t","a","t","u","s",":"," ","c","o","n","c","e","p","t">>, {"option"}),
    Text(<<"C","a","n","c","e","l","?"," ","N","o",":"," ","c","o","n","f","i","r","m",".">>, {"cancel", "confirm"}) }

\* The component a call passes, from the texts of its properties.
CompOf(c) ==
  [name |-> "VEVENT", uid |-> Absent, status |-> c.status.prop,
   categories |-> c.categories.prop, summary |-> c.summary.prop,
   description |-> c.description.prop, location |-> Absent,
   dtstart |-> Absent, dtend |-> Absent]

StatusCalls ==
  { [fn |-> "status_from_component", status |-> st, categories |-> ca, summary |-> su,
     description |-> de] :
      st \in StatusTexts, ca \in CategoryTexts, su \in SummaryTexts, de \in DescriptionTexts }

InitStatus ==
  /\ pc = "call"
  /\ call \in StatusCalls
  /\ ret = None
  /\ resp = NoResp /\ src = <<>> /\ pos = 0
  /\ cal_confirmed = <<>> /\ cal_pending = <<>> /\ changed_usage = 0
  /\ exc = NoExc /\ files = NoFiles

\* ical_status, label = status_from_component(comp)
CallStatusFromComponent ==
  /\ pc = "call"
  /\ call.fn = "status_from_component"
  /\ ret' = status_from_component(CompOf(call))
  /\ pc' = "returned"
  /\ UNCHANGED <<resp, src, pos, cal_confirmed, cal_pending, changed_usage, exc, files, call>>

NextStatus == CallStatusFromComponent

SpecStatus == InitStatus /\ [][NextStatus]_vars

(***************************************************************************)
(* main                                                                    *)
(***************************************************************************)
\* The most components, besides the calendar itself, of a source feed.
MaxEvents == 3

\* The components a source feed is made of.
VEvent(status, categories, summary, description, location, dtstart, dtend) ==
  [name |-> "VEVENT", uid |-> Absent, status |-> status, categories |-> categories,
   summary |-> summary, description |-> description, location |-> location,
   dtstart |-> dtstart, dtend |-> dtend]
Other(name) ==
  [name |-> name, uid |-> Absent, status |-> Absent, categories |-> Absent,
   summary |-> Absent, description |-> Absent, location |-> Absent,
   dtstart |-> Absent, dtend |-> Absent]

Day1 == Some(Date(2024, 7, 10))
Day2 == Some(Date(2024, 7, 11))
Instant1 == Some(DateTime(2024, 7, 10, 8, 0, 0, TZID))
Instant2 == Some(DateTime(2024, 7, 10, 20, 0, 0, TZID))

Components ==
  { \* confirmed by STATUS, a bare usage pair, whole days
    VEvent(Some(<<"C","O","N","F","I","R","M","E","D">>), Absent, Some(<<"G","a","l","a">>),
           Some(DescStr(<<TextLine(<<"L","o","a","d"," ","i","n">>),
                          BareLine(<<":"," ">>, Clock(10, 30), <<"-">>, Clock(23, 59))>>)),
           Some(<<"H","a","l","l"," ","1">>), Day1, Day2),
    \* no signal at all, a description that has its header, instants
    VEvent(Absent, Absent, Absent, Some(<<"S","t","a","t","u","s",":"," ","o","p","e","n">>), Absent, Instant1, Instant2),
    \* cancelled by a category
    VEvent(Some(<<"N","E","E","D","S","-","A","C","T","I","O","N">>), Some(<<<<"R","e","n","t","a","l">>, <<"s","t","o","r","n","i","e","r","t">>>>), Some(<<"F","a","i","r">>),
           Absent, Absent, Day1, Day2),
    \* confirmed by the text, a full usage pair
    VEvent(Absent, Absent, Some(<<"T","o","u","r"," ","(","c","o","n","f","i","r","m","e","d",")">>),
           Some(DescStr(<<FullLine(<<":"," ">>, Stamp(2024, 6, 1, 14, 0), <<" ",ARROW," ">>,
                                   Stamp(2024, 6, 1, 22, 0))>>)),
           Absent, Day1, Day2),
    \* an option whose usage line has a clock time out of range
    VEvent(Some(<<"T","E","N","T","A","T","I","V","E">>), Absent, Some(<<"E","x","p","o">>),
           Some(DescStr(<<BareLine(<<":"," ">>, Clock(25, 0), <<"-">>, Clock(12, 75))>>)),
           Absent, Instant1, Instant2),
    \* an event without DTEND
    VEvent(Absent, Absent, Some(<<"O","p","e","n"," ","e","n","d">>), Absent, Absent, Day1, Absent),
    Other("VTIMEZONE") }

\* A feed's components carry feed-unique identifiers.
WithUids(f) == [i \in DOMAIN f |-> [f[i] EXCEPT !.uid = Some(Digits2(i))]]
Feeds == {WithUids(f) : f \in SeqsUpTo(Components, MaxEvents)}

\* The body of a response: a calendar, or something Calendar.from_ical rejects.
ICal(comps) == [ical |-> TRUE, comps |-> comps]
NotICal == [ical |-> FALSE, comps |-> <<>>]

\* src.walk(): the calendar itself, then its components.
Walk(calendar) == <<Other("VCALENDAR")>> \o calendar.comps

Init ==
  /\ pc = "start"
  /\ resp = NoResp /\ src = <<>> /\ pos = 0
  /\ cal_confirmed = <<>> /\ cal_pending = <<>> /\ changed_usage = 0
  /\ exc = NoExc /\ files = NoFiles
  /\ call = NoCall /\ ret = None

\* An exception leaves main.
Abort(type, stage) ==
  /\ pc' = "raised"
  /\ exc' = [type |-> type, stage |-> stage]

\* Line 125: resp = requests.get(RENTMAN_ICAL_URL, timeout=30)
Download ==
  /\ pc = "start"
  /\ \/ /\ \E type \in {"Timeout", "ConnectionError"} : Abort(type, "download")
        /\ UNCHANGED resp
     \/ /\ \E body \in {ICal(f) : f \in Feeds} \cup {NotICal} :
             resp' = [status_code |-> 200, content |-> body]
        /\ pc' = "downloaded"
        /\ UNCHANGED exc
     \/ /\ \E code \in {404, 503} : resp' = [status_code |-> code, content |-> NotICal]
        /\ pc' = "downloaded"
        /\ UNCHANGED exc
  /\ UNCHANGED <<src, pos, cal_confirmed, cal_pending, changed_usage, files, call, ret>>

\* Line 126: resp.raise_for_status()
RaiseForStatus ==
  /\ pc = "downloaded"
  /\ IF resp.status_code >= 400 /\ resp.status_code < 600
     THEN Abort("HTTPError", "status")
     ELSE pc' = "checked" /\ UNCHANGED exc
  /\ UNCHANGED <<resp, src, pos, cal_confirmed, cal_pending, changed_usage, files, call, ret>>

\* Lines 127-133: src = Calendar.from_ical(resp.content), the two empty
\* calendars, the counter.
FromIcal ==
  /\ pc = "checked"
  /\ IF resp.content.ical
     THEN /\ src' = Walk(resp.content)
          /\ pc' = "loop"
          /\ UNCHANGED exc
     ELSE /\ Abort("ValueError", "parse")
          /\ UNCHANGED src
  /\ pos' = 0 /\ cal_confirmed' = <<>> /\ cal_pending' = <<>> /\ changed_usage' = 0
  /\ UNCHANGED <<resp, files, call, ret>>

\* Lines 143-148: the nominal window, whole days made midnights.
Midnight(v) == IF IsDateTime(v) THEN v ELSE Localize(Combine(v, Time(0, 0)))
Nominal(comp) ==
  IF ~comp.dtstart.present \/ ~comp.dtend.present
  THEN Raise("AttributeError")
  ELSE Pair(Midnight(comp.dtstart.v), Midnight(comp.dtend.v))

\* Lines 169-172: the description, with its header unless it has one.
Description(desc, label) ==
  IF Contains(desc, <<"S","t","a","t","u","s",":">>) THEN desc
  ELSE Strip(<<"S","t","a","t","u","s",":"," ">> \o label \o <<NL, NL>> \o desc)

\* Lines 155-172: the event made of a component, its window and its status.
MakeEvent(comp, window, st) ==
  [uid |-> Get(comp.uid, <<>>),
   summary |-> <<"[">> \o st.label \o <<"]", " ">> \o Get(comp.summary, <<"P","r","o","j","e","c","t">>),
   dtstart |-> window.s, dtend |-> window.e,
   dtstamp |-> "now", last_modified |-> "now",
   status |-> st.ical, transp |-> "OPAQUE",
   location |-> IF Get(comp.location, <<>>) # <<>> THEN comp.location ELSE Absent,
   description |-> Description(Get(comp.description, <<>>), st.label)]

\* Lines 139-172 for one VEVENT: the event and whether usage replaced its
\* window, or the exception raised on the way.
Assemble(comp, nominal, u) ==
  IF nominal.kind = "raise" THEN nominal
  ELSE IF u.kind = "raise" THEN u
  ELSE [kind |-> "event",
        ev |-> MakeEvent(comp, IF u = None THEN nominal ELSE u, status_from_component(comp)),
        overridden |-> u # None]
UsageOf(comp, nominal) ==
  IF nominal.kind = "raise" THEN None
  ELSE usage_override(Get(comp.summary, <<"P","r","o","j","e","c","t">>), Get(comp.description, <<>>),
                      nominal.s, nominal.e)
Transform(comp) ==
  CHOOSE r \in { Assemble(comp, nominal, UsageOf(comp, nominal)) :
                 nominal \in {Nominal(comp)} } : TRUE

\* Route without the branch for cancelled events: they fall to the pending feed.
RouteKeepsCancelled(ical_status) ==
  IF ical_status = "CONFIRMED" THEN "confirmed" ELSE "pending"

\* Lines 175-182: where an event goes.
Route(ical_status) ==
  IF ical_status = "CONFIRMED" THEN "confirmed"
  ELSE IF ical_status = "CANCELLED" THEN "skip"
  ELSE "pending"

\* add_component that puts the event first.
add_component_first(cal, ev) == <<ev>> \o cal

\* Calendar.add_component
add_component(cal, ev) == Append(cal, ev)

\* Lines 135-137: a component that is no VEVENT is passed over.
SkipComponent ==
  /\ pc = "loop"
  /\ pos < Len(src)
  /\ src[pos + 1].name # "VEVENT"
  /\ pos' = pos + 1
  /\ UNCHANGED <<pc, resp, src, cal_confirmed, cal_pending, changed_usage, exc, files, call, ret>>

\* PassEnds with the exception of an event caught: the loop goes on.
PassEndsCatches(r) ==
  IF r.kind = "raise"
  THEN /\ pos' = pos + 1
       /\ UNCHANGED <<pc, exc, cal_confirmed, cal_pending, changed_usage>>
  ELSE /\ pos' = pos + 1
       /\ changed_usage' = IF r.overridden THEN changed_usage + 1 ELSE changed_usage
       /\ cal_confirmed' = IF Route(r.ev.status) = "confirmed"
                           THEN add_component(cal_confirmed, r.ev) ELSE cal_confirmed
       /\ cal_pending' = IF Route(r.ev.status) = "pending"
                         THEN add_component(cal_pending, r.ev) ELSE cal_pending
       /\ UNCHANGED <<pc, exc>>

\* The end of one pass of the loop over a VEVENT, given what Transform made.
PassEnds(r) ==
  IF r.kind = "raise"
  THEN /\ Abort(r.exc, "event")
       /\ UNCHANGED <<pos, cal_confirmed, cal_pending, changed_usage>>
  ELSE /\ pos' = pos + 1
       /\ changed_usage' = IF r.overridden THEN changed_usage + 1 ELSE changed_usage
       /\ cal_confirmed' = IF Route(r.ev.status) = "confirmed"
                           THEN add_component(cal_confirmed, r.ev) ELSE cal_confirmed
       /\ cal_pending' = IF Route(r.ev.status) = "pending"
                         THEN add_component(cal_pending, r.ev) ELSE cal_pending
       /\ UNCHANGED <<pc, exc>>

\* Lines 135-182: one pass of the loop over a VEVENT.
TransformEvent ==
  /\ pc = "loop"
  /\ pos < Len(src)
  /\ src[pos + 1].name = "VEVENT"
  /\ \E r \in {Transform(src[pos + 1])} : PassEnds(r)
  /\ UNCHANGED <<resp, src, files, call, ret>>

\* Lines 184-185: the confirmed calendar is written, after the loop.
WriteConfirmed ==
  /\ pc = "loop"
  /\ pos = Len(src)
  /\ \/ /\ files' = [files EXCEPT !.confirmed = [written |-> TRUE, events |-> cal_confirmed]]
        /\ pc' = "confirmed_written"
        /\ UNCHANGED exc
     \/ /\ Abort("OSError", "write")
        /\ UNCHANGED files
  /\ UNCHANGED <<resp, src, pos, cal_confirmed, cal_pending, changed_usage, call, ret>>

\* Lines 186-189: the pending calendar is written.
WritePending ==
  /\ pc = "confirmed_written"
  /\ \/ /\ files' = [files EXCEPT !.pending = [written |-> TRUE, events |-> cal_pending]]
        /\ pc' = "done"
        /\ UNCHANGED exc
     \/ /\ Abort("OSError", "write")
        /\ UNCHANGED files
  /\ UNCHANGED <<resp, src, pos, cal_confirmed, cal_pending, changed_usage, call, ret>>

Next ==
  \/ Download
  \/ RaiseForStatus
  \/ FromIcal
  \/ SkipComponent
  \/ TransformEvent
  \/ WriteConfirmed
  \/ WritePending

Spec == Init /\ [][Next]_vars

(***************************************************************************)
(* Properties of status_from_component (SpecStatus)                        *)
(***************************************************************************)
StatusReturned == pc = "returned" /\ call.fn = "status_from_component"

\* What each layer of a call holds: STATUS, CATEGORIES, title and description.
LayerSigs(c) == <<c.status.sig, c.categories.sig, c.summary.sig \cup c.description.sig>>
Decisive(c) == {i \in 1 .. 3 : LayerSigs(c)[i] # {}}
ResultOf(sig) ==
  IF sig = "cancel" THEN CANCELLED ELSE IF sig = "confirm" THEN CONFIRMED ELSE TENTATIVE

\* C1: the layers are read in the order STATUS, CATEGORIES, text, and the
\* first layer in which a pattern is found gives the result, whatever the
\* later layers hold; a layer present without any pattern does not stop the
\* reading.
C1_LayerOrder ==
  (StatusReturned /\ Decisive(call) # {}) =>
     ret \in {ResultOf(sig) : sig \in LayerSigs(call)[Min(Decisive(call))]}

\* STATUS is TENTATIVE, a category says confirmed: Pending.
C1_Witness ==
  /\ StatusReturned
  /\ call.status = Text(<<"T","E","N","T","A","T","I","V","E">>, {"option"})
  /\ "confirm" \in call.categories.sig
  /\ ret = TENTATIVE

\* C2: every call returns one of the three pairs, and (TENTATIVE, Pending)
\* when no layer holds a pattern.
C2_Total ==
  StatusReturned =>
     /\ ret \in {CONFIRMED, TENTATIVE, CANCELLED}
     /\ Decisive(call) = {} => ret = TENTATIVE

\* A STATUS and categories without a pattern, no title, no description.
C2_Witness ==
  /\ StatusReturned
  /\ call.status.prop.present /\ call.categories.prop.present
  /\ ~call.summary.prop.present /\ ~call.description.prop.present
  /\ Decisive(call) = {}
  /\ ret = TENTATIVE

\* C9: in the layer that decides, cancellation wins over confirmation and
\* confirmation over option.
C9_CancelFirst ==
  (StatusReturned /\ Decisive(call) # {}) =>
     ret = IF "cancel" \in LayerSigs(call)[Min(Decisive(call))] THEN CANCELLED
           ELSE IF "confirm" \in LayerSigs(call)[Min(Decisive(call))] THEN CONFIRMED
           ELSE TENTATIVE

\* The text decides and holds both a confirmation and a cancellation.
C9_Witness ==
  /\ StatusReturned
  /\ Min(Decisive(call) \cup {3}) = 3
  /\ {"cancel", "confirm"} \subseteq LayerSigs(call)[3]
  /\ ret = CANCELLED

(***************************************************************************)
(* Properties of usage_override (SpecUsage)                                *)
(***************************************************************************)
UsageReturned == pc = "returned" /\ call.fn = "usage_override"

\* The lines of a call: the title, then the lines of the description.
Descs(c) == <<c.summary>> \o c.lines
\* The window a line states, in the configured timezone.
InTZ(v) == DateTime(v.y, v.mo, v.d, v.h, v.mi, 0, TZID)
OnDayOf(nominal, c) == DateTime(nominal.y, nominal.mo, nominal.d, c.h, c.mi, 0, TZID)
FullWindow(l) == Pair(InTZ(l.a), InTZ(l.b))
BareWindow(l, c) == Pair(OnDayOf(c.original_start, l.a), OnDayOf(c.original_end, l.b))

\* A description of one line under a title without the word usage.
OneLine(c, form) == c.summary = PlainTitle /\ Len(c.lines) = 1 /\ c.lines[1].form = form

\* C7: a line with the word usage and a pair of valid clock times, with or
\* without a separator after the word, gives the day of the nominal start at
\* the first time and the day of the nominal end at the second.
C7_BareTimeOverride ==
  (UsageReturned /\ OneLine(call, "bare")
   /\ ValidClock(call.lines[1].a) /\ ValidClock(call.lines[1].b)) =>
     ret = BareWindow(call.lines[1], call)

\* C8: a line with the word usage, a separator or none, and a range of two
\* date-times parse_dt reads gives exactly those two instants.
C8_FullOverride ==
  (UsageReturned /\ OneLine(call, "full")
   /\ ValidStamp(call.lines[1].a) /\ ValidStamp(call.lines[1].b)) =>
     ret = FullWindow(call.lines[1])

\* The lines of a call as usage_override reads them, one by one.
FullOfLine(c, i) == FullPairOf(LineStr(Descs(c)[i]))
BareOfLine(c, i) == TIME_PAIR(LineStr(Descs(c)[i]))
FullLinesOf(c) == {i \in DOMAIN Descs(c) : FullOfLine(c, i) # None}
BareLinesOf(c) == {i \in DOMAIN Descs(c) : BareOfLine(c, i) # None}

\* Every line that has the word usage has a colon right after it.
ColonLeads(c) ==
  \A i \in DOMAIN Descs(c) :
     Descs(c)[i].form # "text" => Descs(c)[i].lead \in {<<":">>, <<":"," ">>}
StatedFull(c) ==
  {i \in DOMAIN Descs(c) : /\ Descs(c)[i].form = "full"
                           /\ ValidStamp(Descs(c)[i].a) /\ ValidStamp(Descs(c)[i].b)}
StatedBare(c) == {i \in DOMAIN Descs(c) : Descs(c)[i].form = "bare"}

\* C10: the first line, in the order of the text, that gives a date-time pair
\* with both sides parsed is the result, also after a line with a bare pair
\* and after a line whose pair does not parse; without such a line the first
\* line with a bare pair decides and no later one; without either the result
\* is nothing.  The result is a whole window or none.
C10_FormSelection ==
  UsageReturned =>
     /\ IF FullLinesOf(call) # {} THEN ret = FullOfLine(call, Min(FullLinesOf(call)))
        ELSE IF BareLinesOf(call) # {}
             THEN ret = BarePairOf(BareOfLine(call, Min(BareLinesOf(call))),
                                   call.original_start, call.original_end)
             ELSE ret = None
     /\ ret.kind = "pair" => IsDateTime(ret.s) /\ IsDateTime(ret.e)
     /\ ColonLeads(call) =>
          IF StatedFull(call) # {} THEN ret = FullWindow(Descs(call)[Min(StatedFull(call))])
          ELSE IF StatedBare(call) # {}
               THEN IF /\ ValidClock(Descs(call)[Min(StatedBare(call))].a)
                       /\ ValidClock(Descs(call)[Min(StatedBare(call))].b)
                    THEN ret = BareWindow(Descs(call)[Min(StatedBare(call))], call)
                    ELSE ret.kind # "pair"
               ELSE ret = None

\* A bare pair in the title, then a pair that does not parse, then one that
\* does: the last is the result.
C10_Witness ==
  /\ UsageReturned
  /\ call.summary = UsageTitle
  /\ Len(call.lines) = 2
  /\ call.lines[1].form = "full" /\ ~ValidStamp(call.lines[1].a)
  /\ call.lines[2].form = "full"
  /\ ret = FullWindow(call.lines[2])

(***************************************************************************)
(* Properties of main (Spec)                                               *)
(***************************************************************************)
\* The events the loop has taken, and how each was classified.
Taken == {i \in 1 .. pos : src[i].name = "VEVENT"}
Classified(i) == status_from_component(src[i])
\* How often the event of component i is in a calendar.
Count(cal, i) == Cardinality({k \in DOMAIN cal : cal[k].uid = src[i].uid.v})

\* C3: every event classified Confirmed is once in the confirmed feed and not
\* in the pending feed, every event classified Pending once in the pending
\* feed and not in the confirmed feed, every cancelled event in neither; the
\* two feeds hold nothing else, and the files are written from them.
C3_SplitRouting ==
  /\ \A i \in Taken :
        /\ Count(cal_confirmed, i) = IF Classified(i) = CONFIRMED THEN 1 ELSE 0
        /\ Count(cal_pending, i) = IF Classified(i) = TENTATIVE THEN 1 ELSE 0
  /\ Len(cal_confirmed) + Len(cal_pending)
        = Cardinality({i \in Taken : Classified(i) # CANCELLED})
  /\ files.confirmed.written => files.confirmed.events = cal_confirmed
  /\ files.pending.written => files.pending.events = cal_pending

\* A finished run over a confirmed, a pending and a cancelled event.
C3_Witness ==
  /\ pc = "done"
  /\ \E i, j, k \in Taken :
        Classified(i) = CONFIRMED /\ Classified(j) = TENTATIVE /\ Classified(k) = CANCELLED
  /\ Len(files.confirmed.events) = 1 /\ Len(files.pending.events) = 1

\* Where in the source the event with this identifier stands.
PlaceOf(uid) == CHOOSE i \in DOMAIN src : src[i].uid = Some(uid)
InSourceOrder(cal) ==
  \A j, k \in DOMAIN cal : j < k => PlaceOf(cal[j].uid) < PlaceOf(cal[k].uid)

\* C4: at every point of the run the events of each output feed stand in
\* the order of the source feed.
C4_OrderPreserved ==
  /\ InSourceOrder(cal_confirmed) /\ InSourceOrder(cal_pending)
  /\ InSourceOrder(files.confirmed.events) /\ InSourceOrder(files.pending.events)

\* Two confirmed events with a pending one between them, written.
C4_Witness ==
  /\ pc = "done"
  /\ Len(files.confirmed.events) = 2 /\ Len(files.pending.events) = 1
  /\ PlaceOf(files.confirmed.events[1].uid) < PlaceOf(files.pending.events[1].uid)
  /\ PlaceOf(files.pending.events[1].uid) < PlaceOf(files.confirmed.events[2].uid)

\* C5: the processing of an event that has a nominal start and end never
\* ends the run.
C5_PerEventLeniency ==
  (pc = "raised" /\ exc.stage = "event") =>
     ~(src[pos + 1].dtstart.present /\ src[pos + 1].dtend.present)

AnyFileWritten == files.confirmed.written \/ files.pending.written

\* C6: a file is written only after the download, the parse and the
\* processing of every event have succeeded; a run these end has written
\* nothing.
C6_NoPartialOutput ==
  /\ AnyFileWritten =>
        /\ resp.status_code = 200 /\ resp.content.ical
        /\ pos = Len(src)
        /\ \A i \in DOMAIN src : src[i].name = "VEVENT" => Transform(src[i]).kind = "event"
  /\ (pc = "raised" /\ exc.stage \in {"download", "status", "parse", "event"})
        => ~AnyFileWritten

\* The third event raises after two were put into the calendars: no file.
C6_Witness ==
  /\ pc = "raised" /\ exc.stage = "event"
  /\ Len(cal_confirmed) + Len(cal_pending) = 2
  /\ ~AnyFileWritten

=============================================================================
